---- MODULE Spec2Model ----
(***************************************************************************)
(* A model of the nixpacks build-plan compiler: the provider chain of      *)
(* src/lib.rs, the Java (Maven/Gradle) and Clojure providers, and the      *)
(* Dockerfile synthesis of nixpacks/builder/docker.rs and                  *)
(* nixpacks/builder/docker/utils.rs.                                       *)
(*                                                                         *)
(* Strings the code inspects character by character (version strings,     *)
(* cache keys, directories) are sequences of one-character strings; a     *)
(* literal fragment of a format string is kept as one element.  Strings   *)
(* the code only passes around (file names, commands) are TLA+ strings.   *)
(* A Rust Result is a record [ok |-> TRUE, val |-> v] or                   *)
(* [ok |-> FALSE, err |-> message]; an Option is None or Some(v).         *)
(***************************************************************************)
EXTENDS Naturals, Integers, Sequences, FiniteSets, TLC

VARIABLES
    app,        \* the source tree (App): its files, directories and file contents
    env,        \* the Environment: variable name -> value
    options,    \* the DockerBuilderOptions of the call
    plan,       \* the BuildPlan handed to the Dockerfile synthesis
    call,       \* the name of the operation that was called ("none" before)
    args,       \* the arguments of a call of a helper of utils.rs
    pc,         \* "ready" before the call, "done" after it returned
    result,     \* what the call returned
    built,      \* the plans handed to ImageBuilder::create_image, in order
    effects     \* what an image builder did to the disk, the standard output and
                \* the build engine, in order

vars == <<app, env, options, plan, call, args, pc, result, built, effects>>

\* Option: None, or Some(v) whose value is Unwrap
None == << >>

Some(v) == << v >>

Unwrap(o) == o[1]

Ok(v) == [ok |-> TRUE, val |-> v]

Err(e) == [ok |-> FALSE, err |-> e]

Range(s) == {s[i] : i \in DOMAIN s}

(***************************************************************************)
(* Bounds of the model.                                                    *)
(***************************************************************************)
\* how many of the providers whose detect is not in src/ match one tree
MaxMatches == 2

\* the length of the version strings of overrides, version files and descriptors
MaxVersionLen == 2

\* the length of a cache key, the length of a cache directory and the number
\* of cache directories of a call of get_cache_mount
MaxKeyLen == 2

MaxDirLen == 1

MaxDirs == 2

(***************************************************************************)
(* App and Environment (external collaborators of the compiler).           *)
(***************************************************************************)
includes_file(a, name) == name \in a.files

includes_directory(a, name) == name \in a.dirs

read_file(a, name) ==
    IF name \in DOMAIN a.content THEN Ok(a.content[name])
    ELSE Err(<<"Error reading", name>>)

get_config_variable(e, name) ==
    IF ("NIXPACKS_" \o name) \in DOMAIN e THEN Some(e["NIXPACKS_" \o name])
    ELSE None

(***************************************************************************)
(* src/lib.rs: the provider registry.                                      *)
(***************************************************************************)
get_providers ==
    << "Crystal", "CSharp", "Dart", "Elixir", "Deno", "FSharp", "Clojure",
       "Golang", "HaskellStack", "Java", "Php", "Ruby", "Node", "Python",
       "Rust", "Swift", "Staticfile", "Zig" >>

\* the providers whose source is under src/
SourceProviders == {"FSharp", "Clojure", "Java"}

OpaqueProviders == Range(get_providers) \ SourceProviders

IndexOf(p) == CHOOSE i \in DOMAIN get_providers : get_providers[i] = p

(***************************************************************************)
(* src/providers/java.rs                                                   *)
(***************************************************************************)
GRADLEW == "gradlew"

BUILD_GRADLE == "build.gradle"

BUILD_GRADLE_KTS == "build.gradle.kts"

SETTINGS_GRADLE == "settings.gradle"

WRAPPER_PROPERTIES == "gradle/wrapper/gradle-wrapper.properties"

GRADLE_VERSION_FILE == ".gradle-version"

MsgBuildGradle ==
    << "Gradle project detected with invalid files, please make sure you have",
       "build.gradle", "or", "build.gradle.kts",
       "at the root of your project directory" >>

MsgWrapperProperties ==
    << "Gradle project detected with invalid files, please make sure you have",
       "gradle/wrapper/gradle-wrapper.properties", "in your project directory" >>

is_maven_app(a) ==
    \/ includes_file(a, "pom.xml")
    \/ includes_directory(a, "pom.atom")
    \/ includes_directory(a, "pom.clj")
    \/ includes_directory(a, "pom.groovy")
    \/ includes_file(a, "pom.rb")
    \/ includes_file(a, "pom.scala")
    \/ includes_file(a, "pom.yaml")
    \/ includes_file(a, "pom.yml")

is_gradle_app_lenient(a) ==
    Ok(/\ includes_file(a, GRADLEW)
       /\ includes_file(a, BUILD_GRADLE) \/ includes_file(a, BUILD_GRADLE_KTS)
       /\ includes_file(a, SETTINGS_GRADLE)
       /\ includes_file(a, WRAPPER_PROPERTIES))

is_gradle_app(a) ==
    IF ~includes_file(a, GRADLEW) THEN Ok(FALSE)
    ELSE IF ~(includes_file(a, BUILD_GRADLE) \/ includes_file(a, BUILD_GRADLE_KTS))
    THEN Err(MsgBuildGradle)
    ELSE IF ~(includes_file(a, SETTINGS_GRADLE) \/ includes_file(a, SETTINGS_GRADLE))
    THEN Err(MsgBuildGradle)
    ELSE IF ~includes_file(a, WRAPPER_PROPERTIES)
    THEN Err(MsgWrapperProperties)
    ELSE Ok(TRUE)

(***************************************************************************)
(* Characters, and the string functions the version parsers use.           *)
(***************************************************************************)
DigitChars == << "0", "1", "2", "3", "4", "5", "6", "7", "8", "9" >>

Digits == Range(DigitChars)

Letters ==
    { "a", "b", "c", "d", "e", "f", "g", "h", "i", "j", "k", "l", "m",
      "n", "o", "p", "q", "r", "s", "t", "u", "v", "w", "x", "y", "z",
      "A", "B", "C", "D", "E", "F", "G", "H", "I", "J", "K", "L", "M",
      "N", "O", "P", "Q", "R", "S", "T", "U", "V", "W", "X", "Y", "Z" }

Whitespace == { " ", "\n", "\t" }

Quotes == { "\"", "'" }

DigitVal(c) == (CHOOSE i \in DOMAIN DigitChars : DigitChars[i] = c) - 1

\* the first position from i on whose character is not in S (Len(s) + 1 if none)
SkipWhile(s, i, S) ==
    CHOOSE j \in i..(Len(s) + 1) :
        /\ \A k \in i..(j - 1) : s[k] \in S
        /\ j = Len(s) + 1 \/ s[j] \notin S

\* str::trim: leading and trailing whitespace removed
trim(s) ==
    LET first == SkipWhile(s, 1, Whitespace)
        last  == IF first > Len(s) THEN first - 1
                 ELSE CHOOSE j \in first..Len(s) :
                        /\ s[j] \notin Whitespace
                        /\ \A k \in (j + 1)..Len(s) : s[k] \in Whitespace
    IN  SubSeq(s, first, last)

\* the largest i32
I32_MAX == 2147483647

\* str::parse::<i32> of a string of digits: None when empty or out of range
RECURSIVE ParseDigits(_, _, _)
ParseDigits(s, i, acc) ==
    IF i > Len(s) THEN Some(acc)
    ELSE IF acc > (I32_MAX - DigitVal(s[i])) \div 10 THEN None
    ELSE ParseDigits(s, i + 1, acc * 10 + DigitVal(s[i]))

parse_i32(s) == IF s = << >> THEN None ELSE ParseDigits(s, 1, 0)

unwrap_or_default(v) == IF v = None THEN 0 ELSE Unwrap(v)

(***************************************************************************)
(* src/providers/java.rs: GradleHelper::get_jdk_pgk                        *)
(***************************************************************************)
JAVA_DEFAULT_JDK_PKG_NAME == "jdk"

\* the literal start of a distributionUrl line up to the version
DISTRIBUTION_URL == "distributionUrl=https\\://services.gradle.org/distributions/gradle"

\* version_grouping_regex, (distributionUrl[\S].*[gradle])(-)([0-9|\.]*), on a
\* file whose text is either a distributionUrl line (the literal start, "-",
\* then the characters that follow) or text without one: capture group 3
version_grouping_regex(content) ==
    IF Len(content) >= 2 /\ content[1] = DISTRIBUTION_URL /\ content[2] = "-"
    THEN Some(SubSeq(content, 3, SkipWhile(content, 3, Digits \cup {"|", "."}) - 1))
    ELSE None

\* version_second_pass_regex,
\* ^(?:[\sa-zA-Z-"']*)(\d*)(?:\.*)(\d*)(?:\.*\d*)(?:["']?)$ : capture group 1,
\* or None when the string does not match
version_second_pass_regex(t) ==
    LET i1 == SkipWhile(t, 1, Whitespace \cup Letters \cup {"-"} \cup Quotes)
        i2 == SkipWhile(t, i1, Digits)
        i3 == SkipWhile(t, i2, {"."})
        i4 == SkipWhile(t, i3, Digits)
        i5 == SkipWhile(t, i4, {"."})
        i6 == SkipWhile(t, i5, Digits)
        i7 == IF i6 <= Len(t) /\ t[i6] \in Quotes THEN i6 + 1 ELSE i6
    IN  IF i7 = Len(t) + 1 THEN Some(SubSeq(t, i1, i2 - 1)) ELSE None

\* lines 236-243: the package of a Gradle major version
jdk_of_version(parsed_version) ==
    LET int_version == unwrap_or_default(parse_i32(parsed_version))
    IN  IF int_version = 6 THEN "jdk11"
        ELSE IF int_version < 6 THEN "jdk8"
        ELSE "jdk"

get_jdk_pgk(a, e) ==
    LET from_env == get_config_variable(e, "NIXPACKS_GRADLE_VERSION")
        source ==
            IF from_env # None THEN Ok(from_env)
            ELSE IF includes_file(a, GRADLE_VERSION_FILE)
            THEN LET text == read_file(a, GRADLE_VERSION_FILE)
                 IN  IF text.ok THEN Ok(Some(text.val)) ELSE text
            ELSE LET file_content == read_file(a, WRAPPER_PROPERTIES)
                 IN  IF file_content.ok
                     THEN Ok(version_grouping_regex(file_content.val))
                     ELSE file_content
    IN  IF ~source.ok THEN source
        ELSE IF source.val = None THEN Ok(JAVA_DEFAULT_JDK_PKG_NAME)
        ELSE LET matches == version_second_pass_regex(trim(Unwrap(source.val)))
             IN  IF matches = None THEN Ok(JAVA_DEFAULT_JDK_PKG_NAME)
                 ELSE Ok(jdk_of_version(Unwrap(matches)))

(***************************************************************************)
(* src/providers/clojure.rs                                                *)
(***************************************************************************)
CLOJURE_DEFAULT_JDK_PKG_NAME == "jdk8"

JDK_VERSION_FILE == ".jdk-version"

\* jdk_regex, ^[0-9][0-9]?$ : the whole match, or None
jdk_regex(t) ==
    IF Len(t) \in {1, 2} /\ \A i \in DOMAIN t : t[i] \in Digits THEN Some(t)
    ELSE None

\* the version source with the version file consulted first
clojure_custom_version_file_first(a, e) ==
    IF includes_file(a, JDK_VERSION_FILE)
    THEN LET text == read_file(a, JDK_VERSION_FILE)
         IN  IF text.ok THEN Ok(Some(text.val)) ELSE text
    ELSE Ok(get_config_variable(e, "JDK_VERSION"))

\* lines 44-49: the config variable, else the content of .jdk-version
clojure_custom_version(a, e) ==
    LET from_env == get_config_variable(e, "JDK_VERSION")
    IN  IF from_env = None /\ includes_file(a, JDK_VERSION_FILE)
        THEN LET text == read_file(a, JDK_VERSION_FILE)
             IN  IF text.ok THEN Ok(Some(text.val)) ELSE text
        ELSE Ok(from_env)

get_nix_jdk_package(a, e) ==
    LET custom_version == clojure_custom_version(a, e)
    IN  IF ~custom_version.ok THEN custom_version
        ELSE IF custom_version.val = None THEN Ok(CLOJURE_DEFAULT_JDK_PKG_NAME)
        ELSE LET matches == jdk_regex(trim(Unwrap(custom_version.val)))
             IN  IF matches = None THEN Ok(CLOJURE_DEFAULT_JDK_PKG_NAME)
                 ELSE IF Unwrap(matches) = << "8" >>
                 THEN Ok(CLOJURE_DEFAULT_JDK_PKG_NAME)
                 ELSE IF Unwrap(matches) = << "1", "1" >> THEN Ok("jdk11")
                 ELSE Ok(CLOJURE_DEFAULT_JDK_PKG_NAME)

(***************************************************************************)
(* Build plans.  A plan is                                                 *)
(*   [provider, kind, pkgs, build_cmd, start_phase]                        *)
(* with start_phase None or Some([cmd |-> None or Some(command)]).         *)
(***************************************************************************)
StartPhase_new(cmd) == Some([cmd |-> Some(cmd)])

contains(text, fragment) == fragment \in Range(text)

get_maven_exe(a) ==
    IF includes_file(a, "mvnw") /\ includes_file(a, ".mvn/wrapper/maven-wrapper.properties")
    THEN "./mvnw"
    ELSE "mvn"

get_port_config(a) ==
    LET read == read_file(a, "pom.xml")
        pom_file == IF read.ok THEN read.val ELSE << >>
    IN  IF contains(pom_file, "<groupId>org.wildfly.swarm")
        THEN "-Dswarm.http.port=$PORT"
        ELSE IF /\ contains(pom_file, "<groupId>org.springframework.boot")
                /\ contains(pom_file, "<artifactId>spring-boot")
        THEN "-Dserver.port=$PORT"
        ELSE ""

get_start_cmd(a) ==
    IF includes_file(a, "pom.xml")
    THEN << "java ", get_port_config(a), " $JAVA_OPTS -jar target/*jar" >>
    ELSE << "java $JAVA_OPTS -jar target/*jar" >>

get_maven_build_plan(a) ==
    [ provider    |-> "Java",
      kind        |-> "maven",
      pkgs        |-> << "maven", "jdk" >>,
      build_cmd   |-> Some(<< get_maven_exe(a),
                             " -DoutputFile=target/mvn-dependency-list.log -B -DskipTests clean dependency:list install" >>),
      start_phase |-> StartPhase_new(get_start_cmd(a)) ]

get_gradle_build_plan(a, e) ==
    LET jdk_pkg == get_jdk_pgk(a, e)
    IN  IF ~jdk_pkg.ok THEN jdk_pkg
        ELSE Ok([ provider    |-> "Java",
                  kind        |-> "gradle",
                  pkgs        |-> << jdk_pkg.val >>,
                  build_cmd   |-> Some(<< "./gradlew build -x check" >>),
                  start_phase |-> StartPhase_new(
                      << "bash -c \"java -Dserver.port=$PORT $JAVA_OPTS -jar ./build/libs/*.jar\"" >>) ])

\* JavaProvider::detect
java_detect(a) == IF is_maven_app(a) THEN Ok(TRUE) ELSE is_gradle_app(a)

\* JavaProvider::get_build_plan asking for the Maven files first
java_get_build_plan_maven_first(a, e) ==
    IF is_maven_app(a) THEN Ok(get_maven_build_plan(a))
    ELSE LET gradle == is_gradle_app(a)
         IN  IF ~gradle.ok THEN gradle
             ELSE IF gradle.val THEN get_gradle_build_plan(a, e)
             ELSE Ok(get_maven_build_plan(a))

\* JavaProvider::get_build_plan
java_get_build_plan(a, e) ==
    LET gradle == is_gradle_app(a)
    IN  IF ~gradle.ok THEN gradle
        ELSE IF gradle.val THEN get_gradle_build_plan(a, e)
        ELSE Ok(get_maven_build_plan(a))

\* ClojureProvider::detect
clojure_detect(a) == Ok(includes_file(a, "project.clj"))

\* ClojureProvider::setup, build and start
clojure_plan(a, e) ==
    Ok([ provider    |-> "Clojure",
         kind        |-> "clojure",
         pkgs        |-> << "leiningen", "jdk8" >>,
         build_cmd   |-> Some(<< "lein uberjar" >>),
         start_phase |-> StartPhase_new(
             << "java $JAVA_OPTS -jar target/uberjar/*standalone.jar" >>) ])

(***************************************************************************)
(* src/providers/fsharp.rs                                                 *)
(***************************************************************************)
FSPROJ == "App.fsproj"

\* App::find_files("*.fsproj")
find_fsproj(a) == { f \in a.files : f = FSPROJ }

fsharp_detect(a) == Ok(find_fsproj(a) # {})

fsharp_plan(a, e) ==
    Ok([ provider    |-> "FSharp",
         kind        |-> "fsharp",
         pkgs        |-> << "dotnet-sdk" >>,
         build_cmd   |-> Some(<< "dotnet publish --no-restore -c Release -o ", "out" >>),
         start_phase |-> StartPhase_new(<< "./", "out", "/", "App" >>) ])

(***************************************************************************)
(* The providers whose source is not under src/: a tree matches the set    *)
(* a.matches of them, and the plan such a provider contributes has the     *)
(* start phase a.start.                                                    *)
(***************************************************************************)
opaque_detect(p, a) == Ok(p \in a.matches)

opaque_plan(p, a) ==
    Ok([ provider    |-> p,
         kind        |-> "opaque",
         pkgs        |-> << >>,
         build_cmd   |-> None,
         start_phase |-> a.start ])

detect(p, a, e) ==
    CASE p = "Java"    -> java_detect(a)
      [] p = "Clojure" -> clojure_detect(a)
      [] p = "FSharp"  -> fsharp_detect(a)
      [] OTHER         -> opaque_detect(p, a)

provider_plan(p, a, e) ==
    CASE p = "Java"    -> java_get_build_plan(a, e)
      [] p = "Clojure" -> clojure_plan(a, e)
      [] p = "FSharp"  -> fsharp_plan(a, e)
      [] OTHER         -> opaque_plan(p, a)

(***************************************************************************)
(* NixpacksBuildPlanGenerator::generate_plan, the provider chain: the      *)
(* registry is walked in order, the first provider whose detect returns    *)
(* true contributes the plan, an error of detect or of the plan is         *)
(* returned as it is, and no match is the NoProviderDetected error.        *)
(***************************************************************************)
NoProviderDetected == << "NoProviderDetected" >>

RECURSIVE chain_from(_, _, _, _)
chain_from(providers, i, a, e) ==
    IF i > Len(providers) THEN Err(NoProviderDetected)
    ELSE LET detected == detect(providers[i], a, e)
         IN  IF ~detected.ok THEN detected
             ELSE IF detected.val THEN provider_plan(providers[i], a, e)
             ELSE chain_from(providers, i + 1, a, e)

\* a chain that falls back to the last provider of the registry
generate_plan_fallback(providers, a, e) ==
    LET r == chain_from(providers, 1, a, e)
    IN  IF ~r.ok /\ r.err = NoProviderDetected
        THEN provider_plan(providers[Len(providers)], a, e)
        ELSE r

generate_plan(providers, a, e) == chain_from(providers, 1, a, e)

(***************************************************************************)
(* src/lib.rs: generate_build_plan and create_docker_image                 *)
(***************************************************************************)
NoStartCommand == << "No start command could be found" >>

\* lines 97-101 checking the start command whatever the options say
start_check_strict(p, build_options) ==
    p.start_phase # None /\ Unwrap(p.start_phase).cmd = None

\* lines 97-101: whether create_docker_image bails for want of a start command
start_check(p, build_options) ==
    /\ p.start_phase # None
    /\ Unwrap(p.start_phase).cmd = None
    /\ ~build_options.no_error_without_start

DefaultOptions ==
    [ no_error_without_start |-> FALSE,
      no_cache               |-> FALSE,
      cache_key              |-> None ]

Reverse(s) == [ i \in DOMAIN s |-> s[Len(s) + 1 - i] ]

\* generate_build_plan handing the generator the registry in reverse order
generate_build_plan_reversed ==
    /\ pc = "ready"
    /\ call = "none"
    /\ call' = "generate_build_plan"
    /\ result' = generate_plan(Reverse(get_providers), app, env)
    /\ pc' = "done"
    /\ UNCHANGED <<app, env, options, plan, args, built, effects>>

\* generate_build_plan(path, envs, options)
generate_build_plan ==
    /\ pc = "ready"
    /\ call = "none"
    /\ call' = "generate_build_plan"
    /\ result' = generate_plan(get_providers, app, env)
    /\ pc' = "done"
    /\ UNCHANGED <<app, env, options, plan, args, built, effects>>

\* create_docker_image(path, envs, plan_options, build_options); the image
\* builder it ends in succeeds or fails
create_docker_image ==
    /\ pc = "ready"
    /\ call = "none"
    /\ \E no_error_without_start \in BOOLEAN, builder_ok \in BOOLEAN :
          LET build_options ==
                  [DefaultOptions EXCEPT !.no_error_without_start = no_error_without_start]
              generated == generate_plan(get_providers, app, env)
          IN  /\ options' = build_options
              /\ IF ~generated.ok
                 THEN result' = generated /\ UNCHANGED built
                 ELSE IF start_check(generated.val, build_options)
                 THEN result' = Err(NoStartCommand) /\ UNCHANGED built
                 ELSE /\ built' = Append(built, generated.val)
                      /\ result' = IF builder_ok THEN Ok(<< >>)
                                   ELSE Err(<< "Docker build failed" >>)
    /\ call' = "create_docker_image"
    /\ pc' = "done"
    /\ UNCHANGED <<app, env, plan, args, effects>>

(***************************************************************************)
(* The source trees of the provider chain's specification.                 *)
(***************************************************************************)
ChainFiles ==
    { GRADLEW, BUILD_GRADLE, BUILD_GRADLE_KTS, SETTINGS_GRADLE,
      WRAPPER_PROPERTIES, "pom.xml", "project.clj", FSPROJ }

WrapperText == << DISTRIBUTION_URL, "-", "7", ".", "5", "-bin.zip" >>

\* the opaque providers a tree of the model may match: some registered before
\* FSharp, one between Clojure and Java, some after Java, and the last two
MatchableProviders ==
    { "Crystal", "Deno", "Golang", "Php", "Node", "Swift", "Staticfile", "Zig" }

StartShapes == { None, Some([cmd |-> None]), StartPhase_new(<< "start" >>) }

ContentOf(files) ==
    [ f \in files \cap {WRAPPER_PROPERTIES} |-> WrapperText ]

InitChain ==
    /\ \E files \in SUBSET ChainFiles :
       \E matches \in { m \in SUBSET MatchableProviders : Cardinality(m) <= MaxMatches } :
       \E start \in (IF matches = {} THEN {None} ELSE StartShapes) :
          app = [ files   |-> files,
                  dirs    |-> {},
                  content |-> ContentOf(files),
                  matches |-> matches,
                  start   |-> start ]
    /\ env = << >>
    /\ options = DefaultOptions
    /\ plan = None
    /\ call = "none"
    /\ args = None
    /\ pc = "ready"
    /\ result = None
    /\ built = << >>
    /\ effects = << >>

NextChain == generate_build_plan \/ create_docker_image

SpecChain == InitChain /\ [][NextChain]_vars

(***************************************************************************)
(* Properties of the provider chain (SpecChain).                           *)
(***************************************************************************)
\* the registry positions of the providers whose detect returns true on the tree
Detecting ==
    { i \in DOMAIN get_providers :
        LET d == detect(get_providers[i], app, env) IN d.ok /\ d.val }

\* the registry positions of the providers whose detect returns an error
Failing ==
    { i \in DOMAIN get_providers : ~detect(get_providers[i], app, env).ok }

FirstDetecting == CHOOSE i \in Detecting : \A j \in Detecting : i <= j

Returned == pc = "done" /\ call \in {"generate_build_plan", "create_docker_image"}

\* C1: when two or more registered providers detect the tree, the provider
\* selected is the earliest of them in the order of get_providers: the call
\* returns what that provider produced, the plan handed to the image builder
\* is that provider's, and no later provider's plan is ever returned (a
\* detection error of a provider consulted before it ends the call first)
ChainPriority ==
    (Returned /\ Cardinality(Detecting) >= 2) =>
        LET first == get_providers[FirstDetecting]
            produced == provider_plan(first, app, env)
        IN  /\ result.ok /\ call = "generate_build_plan" => result.val.provider = first
            /\ \A k \in DOMAIN built : built[k].provider = first
            /\ IF \E j \in Failing : j < FirstDetecting
               THEN ~result.ok /\ built = << >>
               ELSE /\ call = "generate_build_plan" => result = produced
                    /\ ~produced.ok => result = produced
                    /\ built # << >> => built = << produced.val >>

\* C1 witness: Clojure and Java both detect the tree, and the Clojure plan is returned
ChainPriorityWitness ==
    /\ Returned
    /\ call = "generate_build_plan"
    /\ Cardinality(Detecting) >= 2
    /\ get_providers[FirstDetecting] = "Clojure"
    /\ IndexOf("Java") \in Detecting
    /\ result.ok
    /\ result.val.provider = "Clojure"

\* C2: when every registered provider's detect reports no match, the call ends
\* in the NoProviderDetected error; and whenever no provider's detect returns
\* true, no plan is returned and none reaches the image builder
NoProviderDetectedIsTerminal ==
    (Returned /\ Detecting = {}) =>
        /\ ~result.ok
        /\ built = << >>
        /\ Failing = {} => result = Err(NoProviderDetected)

\* C2 witness: a tree no provider detects, and the call has returned the error
NoProviderDetectedWitness ==
    /\ Returned
    /\ Detecting = {}
    /\ Failing = {}
    /\ app.files # {}
    /\ ~result.ok
    /\ result.err = NoProviderDetected

\* the Java provider is consulted: every provider before it reported no match
JavaConsulted ==
    \A i \in 1..(IndexOf("Java") - 1) :
        LET d == detect(get_providers[i], app, env) IN d.ok /\ ~d.val

\* a Gradle wrapper without one of the files the structure check asks for
BrokenGradle ==
    /\ includes_file(app, GRADLEW)
    /\ \/ ~(includes_file(app, BUILD_GRADLE) \/ includes_file(app, BUILD_GRADLE_KTS))
       \/ ~includes_file(app, SETTINGS_GRADLE)
       \/ ~includes_file(app, WRAPPER_PROPERTIES)

\* C3: when the Java provider is consulted on a tree with gradlew and an
\* incomplete Gradle structure, the call ends in the structure check's error,
\* with or without a Maven pom file: detect does not return false, no plan is
\* returned, and no provider registered after Java is selected
BrokenGradleFailsLoudly ==
    (Returned /\ JavaConsulted /\ BrokenGradle) =>
        /\ java_detect(app) # Ok(FALSE)
        /\ ~result.ok
        /\ result.err \in {MsgBuildGradle, MsgWrapperProperties}
        /\ built = << >>

\* C3 witness: such a tree that also holds a pom file and matches Node
BrokenGradleWitness ==
    /\ Returned
    /\ JavaConsulted
    /\ BrokenGradle
    /\ includes_file(app, "pom.xml")
    /\ "Node" \in app.matches
    /\ ~result.ok

\* C4: the error of the Gradle structure check names the file whose absence
\* raised it: build.gradle and build.gradle.kts, or settings.gradle, or
\* gradle/wrapper/gradle-wrapper.properties
GradleErrorNamesMissingFile ==
    (Returned /\ JavaConsulted /\ BrokenGradle /\ ~result.ok) =>
        LET named == Range(result.err)
            no_build == ~(includes_file(app, BUILD_GRADLE)
                          \/ includes_file(app, BUILD_GRADLE_KTS))
            no_settings == ~includes_file(app, SETTINGS_GRADLE)
            no_wrapper == ~includes_file(app, WRAPPER_PROPERTIES)
        IN  /\ no_build => {BUILD_GRADLE, BUILD_GRADLE_KTS} \subseteq named
            /\ ~no_build /\ no_settings => SETTINGS_GRADLE \in named
            /\ ~no_build /\ ~no_settings /\ no_wrapper => WRAPPER_PROPERTIES \in named

\* the plan create_docker_image generated, when it generated one
Generated == generate_plan(get_providers, app, env)

NoStartCmd(p) == p.start_phase # None /\ Unwrap(p.start_phase).cmd = None

\* C5: in create_docker_image a plan whose Start phase has no start command
\* ends the call in the NoStartCommand error with the image builder never
\* invoked when no_error_without_start is not set, and is handed to the image
\* builder when it is set
NoStartCommandIsFatal ==
    (pc = "done" /\ call = "create_docker_image"
        /\ Generated.ok /\ NoStartCmd(Generated.val)) =>
        IF options.no_error_without_start
        THEN built = << Generated.val >>
        ELSE result = Err(NoStartCommand) /\ built = << >>

\* C5 witness: the call failed with NoStartCommand on such a plan
NoStartCommandWitness ==
    /\ pc = "done"
    /\ call = "create_docker_image"
    /\ Generated.ok
    /\ NoStartCmd(Generated.val)
    /\ ~options.no_error_without_start
    /\ ~result.ok
    /\ result.err = NoStartCommand
    /\ built = << >>

(***************************************************************************)
(* Version inference (SpecJdk): ClojureProvider::get_nix_jdk_package and   *)
(* GradleHelper::get_jdk_pgk called on a tree and an environment that give *)
(* version strings through the override variable, the version dotfile and  *)
(* the Gradle wrapper's distributionUrl.                                   *)
(***************************************************************************)
VersionChars == { "1", "6", "8", "a", " ", ".", "\"" }

RECURSIVE StringsUpTo(_, _)
StringsUpTo(chars, n) ==
    IF n = 0 THEN { << >> }
    ELSE LET shorter == StringsUpTo(chars, n - 1)
         IN  shorter \cup { Append(t, c) : t \in shorter, c \in chars }

RECURSIVE ListsUpTo(_, _)
ListsUpTo(items, n) ==
    IF n = 0 THEN { << >> }
    ELSE LET shorter == ListsUpTo(items, n - 1)
         IN  shorter \cup { Append(l, x) : l \in shorter, x \in items }

LongDigits == << "9", "9", "9", "9", "9", "9", "9", "9", "9", "9", "9" >>

Versions ==
    StringsUpTo(VersionChars, MaxVersionLen)
        \cup { LongDigits, << "1", "1", "\n" >>, << "7", ".", "5" >>,
               << "\"", "6", ".", "1", "\"" >> }

Eleven == << "1", "1" >>

WrapperWith(version) == << DISTRIBUTION_URL, "-" >> \o version \o << "-bin.zip" >>

NoUrlText == << "# no distribution url" >>

InitJdk ==
    /\ \E v \in Versions :
       \E override \in {None, Some(v), Some(Eleven)} :
       \E dotfile \in {None, Some(v), Some(Eleven)} :
       \E wrapper \in {NoUrlText, WrapperWith(v), WrapperWith(Eleven)} :
          /\ env = IF override = None THEN << >>
                   ELSE [ k \in {"NIXPACKS_JDK_VERSION", "NIXPACKS_NIXPACKS_GRADLE_VERSION"}
                            |-> Unwrap(override) ]
          /\ app = [ files   |-> {WRAPPER_PROPERTIES, "project.clj"}
                                    \cup (IF dotfile = None THEN {}
                                          ELSE {JDK_VERSION_FILE, GRADLE_VERSION_FILE}),
                     dirs    |-> {},
                     content |-> [ f \in {WRAPPER_PROPERTIES}
                                          \cup (IF dotfile = None THEN {}
                                                ELSE {JDK_VERSION_FILE, GRADLE_VERSION_FILE})
                                     |-> IF f = WRAPPER_PROPERTIES THEN wrapper
                                         ELSE Unwrap(dotfile) ],
                     matches |-> {},
                     start   |-> None ]
    /\ options = DefaultOptions
    /\ plan = None
    /\ call = "none"
    /\ args = None
    /\ pc = "ready"
    /\ result = None
    /\ built = << >>
    /\ effects = << >>

\* a call of ClojureProvider::get_nix_jdk_package(app, env)
resolve_clojure_jdk ==
    /\ pc = "ready"
    /\ call = "none"
    /\ call' = "get_nix_jdk_package"
    /\ result' = get_nix_jdk_package(app, env)
    /\ pc' = "done"
    /\ UNCHANGED <<app, env, options, plan, args, built, effects>>

\* a call of GradleHelper::get_jdk_pgk(app, env)
resolve_gradle_jdk ==
    /\ pc = "ready"
    /\ call = "none"
    /\ call' = "get_jdk_pgk"
    /\ result' = get_jdk_pgk(app, env)
    /\ pc' = "done"
    /\ UNCHANGED <<app, env, options, plan, args, built, effects>>

NextJdk == resolve_clojure_jdk \/ resolve_gradle_jdk \/ generate_build_plan

SpecJdk == InitJdk /\ [][NextJdk]_vars

\* the override and the version file the Clojure resolver is given
JdkOverride ==
    IF "NIXPACKS_JDK_VERSION" \in DOMAIN env THEN Some(env["NIXPACKS_JDK_VERSION"])
    ELSE None

JdkVersionFile ==
    IF JDK_VERSION_FILE \in app.files THEN Some(app.content[JDK_VERSION_FILE]) ELSE None

\* the package of a version string: jdk11 for 11, the default otherwise
PackageOf(version) == IF trim(version) = Eleven THEN "jdk11" ELSE "jdk8"

\* C7: get_nix_jdk_package resolves by priority: the NIXPACKS_JDK_VERSION
\* override if set, else the content of .jdk-version if present, else the
\* default jdk8; version 11 gives jdk11; with both an override and a version
\* file the override decides and the file is not consulted
ClojureJdkPriority ==
    (pc = "done" /\ call = "get_nix_jdk_package") =>
        /\ result = Ok(IF JdkOverride # None THEN PackageOf(Unwrap(JdkOverride))
                       ELSE IF JdkVersionFile # None THEN PackageOf(Unwrap(JdkVersionFile))
                       ELSE "jdk8")
        /\ JdkOverride # None =>
              result = get_nix_jdk_package(
                          [app EXCEPT !.files = {WRAPPER_PROPERTIES},
                                      !.content = [ f \in {WRAPPER_PROPERTIES}
                                                      |-> app.content[f] ]], env)

\* C7 witness: an override of 11 over a version file that says otherwise gave jdk11
ClojureJdkPriorityWitness ==
    /\ pc = "done"
    /\ call = "get_nix_jdk_package"
    /\ JdkOverride = Some(Eleven)
    /\ JdkVersionFile # None
    /\ PackageOf(Unwrap(JdkVersionFile)) = "jdk8"
    /\ result = Ok("jdk11")

\* the version strings the Gradle resolver is given
GradleOverride ==
    IF "NIXPACKS_NIXPACKS_GRADLE_VERSION" \in DOMAIN env
    THEN Some(env["NIXPACKS_NIXPACKS_GRADLE_VERSION"])
    ELSE None

GradleVersionFile ==
    IF GRADLE_VERSION_FILE \in app.files THEN Some(app.content[GRADLE_VERSION_FILE])
    ELSE None

\* the version the wrapper's distributionUrl gives, if it has one
GradleDescriptorVersion == version_grouping_regex(app.content[WRAPPER_PROPERTIES])

StripQuotes(t) ==
    LET from == IF t # << >> /\ t[1] \in Quotes THEN 2 ELSE 1
        to   == IF Len(t) >= from /\ t[Len(t)] \in Quotes THEN Len(t) - 1 ELSE Len(t)
    IN  SubSeq(t, from, to)

\* a parseable version number: digits and dots, starting with a number that
\* fits 32 bits, with optional surrounding whitespace and quotes
Parseable(version) ==
    LET t == StripQuotes(trim(version))
        major == SubSeq(t, 1, SkipWhile(t, 1, Digits) - 1)
    IN  /\ t # << >>
        /\ \A i \in DOMAIN t : t[i] \in Digits \cup {"."}
        /\ parse_i32(major) # None

Unparseable(o) == o # None /\ ~Parseable(Unwrap(o))

\* C8: a version string that is not a parseable version number never makes
\* version inference fail and always resolves to the default: get_jdk_pgk
\* returns "jdk" and get_nix_jdk_package returns "jdk8"
UnparseableVersionGivesDefault ==
    /\ (pc = "done" /\ call = "get_nix_jdk_package"
            /\ (Unparseable(JdkOverride)
                \/ (JdkOverride = None /\ Unparseable(JdkVersionFile))))
          => result = Ok(CLOJURE_DEFAULT_JDK_PKG_NAME)
    /\ (pc = "done" /\ call = "get_jdk_pgk"
            /\ (Unparseable(GradleOverride)
                \/ (GradleOverride = None /\ Unparseable(GradleVersionFile))
                \/ (GradleOverride = None /\ GradleVersionFile = None
                        /\ Unparseable(GradleDescriptorVersion))))
          => result = Ok(JAVA_DEFAULT_JDK_PKG_NAME)

(***************************************************************************)
(* Text.  A line is a sequence of fragments, a text a sequence of lines.   *)
(***************************************************************************)
\* slice::join(sep) of strings
RECURSIVE join(_, _)
join(strings, sep) ==
    IF strings = << >> THEN << >>
    ELSE IF Len(strings) = 1 THEN strings[1]
    ELSE strings[1] \o sep \o join(Tail(strings), sep)

\* strings joined by "\n", as the lines of the text ("" is one empty line)
join_lines(strings) == IF strings = << >> THEN << << >> >> ELSE strings

\* str::replace of one character by a string
RECURSIVE replace_char(_, _, _)
replace_char(s, c, by) ==
    IF s = << >> THEN << >>
    ELSE (IF Head(s) = c THEN by ELSE << Head(s) >>) \o replace_char(Tail(s), c, by)

unwrap_or(o, default) == IF o = None THEN default ELSE Unwrap(o)

(***************************************************************************)
(* nixpacks::cache::sanitize_cache_key: every character that is neither    *)
(* alphanumeric nor allow-listed punctuation becomes "-".                  *)
(***************************************************************************)
AllowedPunctuation == { "-", "_" }

sanitize_char(c) ==
    IF c \in Letters \cup Digits \cup AllowedPunctuation THEN c ELSE "-"

sanitize_cache_key(key) == [ i \in DOMAIN key |-> sanitize_char(key[i]) ]

ROOT == << "/", "r", "o", "o", "t" >>

(***************************************************************************)
(* src/nixpacks/builder/docker/utils.rs                                    *)
(***************************************************************************)
\* one directive of get_cache_mount with the target sanitized as well
cache_mount_directive_sanitized_target(cache_key, dir) ==
    LET sanitized_dir == replace_char(dir, "~", ROOT)
        sanitized_key == sanitize_cache_key(cache_key \o << "-" >> \o sanitized_dir)
    IN  << "--mount=type=cache,id=" >> \o sanitized_key
            \o << ",target=" >> \o sanitize_cache_key(sanitized_dir)

\* lines 13-20: the directive of one cache directory
cache_mount_directive(cache_key, dir) ==
    LET sanitized_dir == replace_char(dir, "~", ROOT)
        sanitized_key == sanitize_cache_key(cache_key \o << "-" >> \o sanitized_dir)
    IN  << "--mount=type=cache,id=" >> \o sanitized_key
            \o << ",target=" >> \o sanitized_dir

get_cache_mount(cache_key, cache_directories) ==
    IF cache_key # None /\ cache_directories # None
    THEN join([ i \in DOMAIN Unwrap(cache_directories) |->
                  cache_mount_directive(Unwrap(cache_key), Unwrap(cache_directories)[i]) ],
              << " " >>)
    ELSE << >>

\* str::replace of a pattern of characters by a string, leftmost first
RECURSIVE replace_str(_, _, _)
replace_str(s, pat, by) ==
    IF Len(s) < Len(pat) THEN s
    ELSE IF SubSeq(s, 1, Len(pat)) = pat
         THEN by \o replace_str(SubSeq(s, Len(pat) + 1, Len(s)), pat, by)
         ELSE << Head(s) >> \o replace_str(Tail(s), pat, by)

\* lines 48-54 with the instruction written for an empty list as well
get_copy_command_always(files, app_dir) ==
    << "COPY " >> \o join(files, << " " >>) \o << " ", app_dir >>

\* utils.rs lines 48-54
get_copy_command(files, app_dir) ==
    IF files = << >> THEN << >>
    ELSE << "COPY " >> \o join(files, << " " >>) \o << " ", app_dir >>

\* utils.rs lines 56-71; the literal stage of line 58 is the fragment "0"
get_copy_from_command(from, files, app_dir) ==
    IF files = << >> THEN << "COPY --from=", "0", " ", app_dir, " ", app_dir >>
    ELSE << "COPY --from=", from, " " >>
            \o join([ i \in DOMAIN files |->
                        replace_str(files[i], << ".", "/" >>, << app_dir >>) ],
                    << " " >>)
            \o << " ", app_dir >>

\* utils.rs lines 73-77
get_exec_command(command) ==
    LET params == replace_char(command, "\"", << "\\", "\"" >>)
    IN  << "CMD [", "\"" >> \o params \o << "\"", "]" >>

(***************************************************************************)
(* The helpers of utils.rs called on their own (SpecUtil).                 *)
(***************************************************************************)
MaxFiles == 2

MaxNameLen == 2

MaxCommandLen == 2

FileChars == { ".", "/", "a" }

CommandChars == { "a", "n", " ", "\"", "\\" }

\* the file names of the calls: not empty
FileNames == StringsUpTo(FileChars, MaxNameLen) \ { << >> }

\* the command of test_get_exec_cmd: command1 command2 -l "asdf"
COMMAND_WITH_QUOTES ==
    << "c", "o", "m", "m", "a", "n", "d", "1", " ",
       "c", "o", "m", "m", "a", "n", "d", "2", " ", "-", "l", " ",
       "\"", "a", "s", "d", "f", "\"" >>

CopyArgs ==
    { [ files |-> fs, app_dir |-> "app" ] : fs \in ListsUpTo(FileNames, MaxFiles) }

CopyFromArgs ==
    { [ from |-> f, files |-> fs, app_dir |-> "app" ] :
        f \in { "0", "1" }, fs \in ListsUpTo(FileNames, MaxFiles) }

ExecArgs ==
    { [ command |-> c ] : c \in StringsUpTo(CommandChars, MaxCommandLen)
                                  \cup { COMMAND_WITH_QUOTES } }

KeyChars == { "k", " " }

DirChars == { "d", "~", " " }

\* the inputs of the tests of utils.rs
KEY_CACHE_KEY == << "c", "a", "c", "h", "e", "_", "k", "e", "y" >>

KEY_MY_CACHE_KEY == << "m", "y", " ", "c", "a", "c", "h", "e", " ", "k", "e", "y" >>

DIR1 == << "d", "i", "r", "1" >>

DIR2 == << "d", "i", "r", "2" >>

\* keys and directories of letters and the hyphen
HyphenKeys == { << "a" >>, << "a", "-", "b" >> }

HyphenDirs == { << "c" >>, << "b", "-", "c" >> }

CacheMountArgs ==
    { [ cache_key |-> k, cache_directories |-> ds ] :
        k \in {None} \cup { Some(x) : x \in StringsUpTo(KeyChars, MaxKeyLen) },
        ds \in {None} \cup { Some(l) : l \in ListsUpTo(StringsUpTo(DirChars, MaxDirLen), MaxDirs) } }
    \cup { [ cache_key |-> Some(k), cache_directories |-> Some(<< DIR1, DIR2 >>) ] :
            k \in {KEY_CACHE_KEY, KEY_MY_CACHE_KEY} }
    \cup { [ cache_key |-> Some(k), cache_directories |-> Some(<< d >>) ] :
            k \in HyphenKeys, d \in HyphenDirs }

InitUtil ==
    /\ args \in CacheMountArgs \cup CopyArgs \cup CopyFromArgs \cup ExecArgs
    /\ app = [ files |-> {}, dirs |-> {}, content |-> << >>, matches |-> {}, start |-> None ]
    /\ env = << >>
    /\ options = DefaultOptions
    /\ plan = None
    /\ call = "none"
    /\ pc = "ready"
    /\ result = None
    /\ built = << >>
    /\ effects = << >>

\* a call of utils::get_cache_mount(&cache_key, &cache_directories)
call_get_cache_mount ==
    /\ pc = "ready"
    /\ call = "none"
    /\ DOMAIN args = { "cache_key", "cache_directories" }
    /\ call' = "get_cache_mount"
    /\ result' = get_cache_mount(args.cache_key, args.cache_directories)
    /\ pc' = "done"
    /\ UNCHANGED <<app, env, options, plan, args, built, effects>>

\* a call of utils::get_copy_command(&files, app_dir)
call_get_copy_command ==
    /\ pc = "ready"
    /\ call = "none"
    /\ DOMAIN args = { "files", "app_dir" }
    /\ call' = "get_copy_command"
    /\ result' = get_copy_command(args.files, args.app_dir)
    /\ pc' = "done"
    /\ UNCHANGED <<app, env, options, plan, args, built, effects>>

\* a call of utils::get_copy_from_command(from, &files, app_dir)
call_get_copy_from_command ==
    /\ pc = "ready"
    /\ call = "none"
    /\ DOMAIN args = { "from", "files", "app_dir" }
    /\ call' = "get_copy_from_command"
    /\ result' = get_copy_from_command(args.from, args.files, args.app_dir)
    /\ pc' = "done"
    /\ UNCHANGED <<app, env, options, plan, args, built, effects>>

\* a call of utils::get_exec_command(command)
call_get_exec_command ==
    /\ pc = "ready"
    /\ call = "none"
    /\ DOMAIN args = { "command" }
    /\ call' = "get_exec_command"
    /\ result' = get_exec_command(args.command)
    /\ pc' = "done"
    /\ UNCHANGED <<app, env, options, plan, args, built, effects>>

NextUtil ==
    \/ call_get_cache_mount
    \/ call_get_copy_command
    \/ call_get_copy_from_command
    \/ call_get_exec_command

SpecUtil == InitUtil /\ [][NextUtil]_vars

\* the directory with every ~ replaced by /root
RECURSIVE Expanded(_)
Expanded(dir) ==
    IF dir = << >> THEN << >>
    ELSE IF dir[Len(dir)] = "~" THEN Expanded(SubSeq(dir, 1, Len(dir) - 1)) \o ROOT
    ELSE Append(Expanded(SubSeq(dir, 1, Len(dir) - 1)), dir[Len(dir)])

\* the directive the claim gives for cache key k and directory dir
ExpectedDirective(k, dir) ==
    << "--mount=type=cache,id=" >>
        \o sanitize_cache_key(k \o << "-" >> \o Expanded(dir))
        \o << ",target=" >> \o Expanded(dir)

\* directives 1..n of the directories, each after the first preceded by one space
RECURSIVE ExpectedMounts(_, _, _)
ExpectedMounts(k, dirs, n) ==
    IF n = 0 THEN << >>
    ELSE ExpectedMounts(k, dirs, n - 1)
            \o (IF n = 1 THEN << >> ELSE << " " >>)
            \o ExpectedDirective(k, dirs[n])

Count(s, x) == Cardinality({ i \in DOMAIN s : s[i] = x })

\* C10: with a cache key k and directories d1..dn get_cache_mount returns n
\* directives in the order given, joined by single spaces, directive i being
\* --mount=type=cache,id=<sanitize(k-di')>,target=<di'> with di' the directory
\* with ~ replaced by /root; a legal id is unchanged, an illegal character
\* such as a space becomes -, and the target is not sanitized
CacheMountDirectives ==
    (pc = "done" /\ call = "get_cache_mount"
        /\ args.cache_key # None /\ args.cache_directories # None) =>
        LET k == Unwrap(args.cache_key)
            dirs == Unwrap(args.cache_directories)
        IN  /\ result = ExpectedMounts(k, dirs, Len(dirs))
            /\ Count(result, "--mount=type=cache,id=") = Len(dirs)
            /\ Count(result, ",target=") = Len(dirs)
            /\ \A i \in DOMAIN result :
                  result[i] = ",target=" =>
                      \E d \in DOMAIN dirs :
                          /\ i + Len(Expanded(dirs[d])) <= Len(result)
                          /\ SubSeq(result, i + 1, i + Len(Expanded(dirs[d])))
                                = Expanded(dirs[d])
            /\ (k = KEY_CACHE_KEY /\ dirs = << DIR1, DIR2 >>) =>
                  result = << "--mount=type=cache,id=" >> \o KEY_CACHE_KEY
                              \o << "-" >> \o DIR1 \o << ",target=" >> \o DIR1
                              \o << " ", "--mount=type=cache,id=" >> \o KEY_CACHE_KEY
                              \o << "-" >> \o DIR2 \o << ",target=" >> \o DIR2
            /\ (k = KEY_MY_CACHE_KEY /\ dirs = << DIR1, DIR2 >>) =>
                  result = << "--mount=type=cache,id=",
                              "m", "y", "-", "c", "a", "c", "h", "e", "-", "k", "e", "y",
                              "-" >> \o DIR1 \o << ",target=" >> \o DIR1
                              \o << " ", "--mount=type=cache,id=",
                              "m", "y", "-", "c", "a", "c", "h", "e", "-", "k", "e", "y",
                              "-" >> \o DIR2 \o << ",target=" >> \o DIR2

\* C10 witness: two directories, one with a ~ and one with a space, under a
\* key with a space, have produced their two directives, the second target
\* still the space
CacheMountWitness ==
    /\ pc = "done"
    /\ call = "get_cache_mount"
    /\ args.cache_key = Some(<< "k", " " >>)
    /\ args.cache_directories = Some(<< << "~" >>, << " " >> >>)
    /\ Count(result, "--mount=type=cache,id=") = 2
    /\ SubSeq(result, Len(result) - 1, Len(result)) = << ",target=", " " >>
    /\ \E i \in DOMAIN result :
          SubSeq(result, i, i + 7)
              = << ",target=", "/", "r", "o", "o", "t", " ", "--mount=type=cache,id=" >>


(***************************************************************************)
(* src/nixpacks/builder/docker.rs: DockerBuilder::create_dockerfile.       *)
(* A plan is [setup, install, build, start, variables, static_assets],     *)
(* the phases Options of records, the two maps Options of sequences of     *)
(* <<key, value>> in the order the entries were inserted.  A file name is  *)
(* a sequence of fragments, a command or a package one fragment.           *)
(***************************************************************************)
DOT_NIXPACKS_DIR == ".nixpacks"

APP_DIR == "/app/"

ASSETS_DIR == "/assets/"

DEFAULT_BASE_IMAGE == "ghcr.io/railwayapp/nixpacks:debian"

INDENT == "                "

DefaultSetupPhase ==
    [ base_image |-> DEFAULT_BASE_IMAGE, only_include_files |-> None,
      apt_pkgs |-> None, cmds |-> None ]

DefaultInstallPhase ==
    [ cmds |-> None, cache_directories |-> None, paths |-> None,
      only_include_files |-> None ]

DefaultBuildPhase ==
    [ cmds |-> None, cache_directories |-> None, only_include_files |-> None ]

DefaultStartPhase == [ cmd |-> None, only_include_files |-> None, run_image |-> None ]

\* the names a map of the model may hold, in the order of Ord for String
KeyOrder == << "A", "B", "C" >>

\* the keys of a map in the order they were first inserted
RECURSIVE insertion_keys(_)
insertion_keys(entries) ==
    IF entries = << >> THEN << >>
    ELSE LET before == insertion_keys(SubSeq(entries, 1, Len(entries) - 1))
             k == entries[Len(entries)][1]
         IN  IF k \in Range(before) THEN before ELSE Append(before, k)

\* BTreeMap::iter / into_keys: the keys of the map in ascending order
RECURSIVE sorted_keys_from(_, _)
sorted_keys_from(entries, rank) ==
    IF rank > Len(KeyOrder) THEN << >>
    ELSE (IF \E i \in DOMAIN entries : entries[i][1] = KeyOrder[rank]
          THEN << KeyOrder[rank] >> ELSE << >>)
            \o sorted_keys_from(entries, rank + 1)

map_keys(entries) == sorted_keys_from(entries, 1)

\* Environment::is_config_variable_truthy
is_config_variable_truthy(e, name) ==
    LET v == get_config_variable(e, name)
    IN  v # None /\ Unwrap(v) \in { "1", "true" }

\* lines 427-440 with only the first cache directory mounted
docker_get_cache_mount_first_only(cache_key, cache_directories) ==
    IF cache_key # None /\ cache_directories # None /\ Unwrap(cache_directories) # << >>
    THEN LET sanitized_dir == replace_char(Unwrap(cache_directories)[1], "~", ROOT)
             sanitized_key == sanitize_cache_key(
                 Unwrap(cache_key) \o << "-" >> \o sanitized_dir)
         IN  << "--mount=type=cache,id=" >> \o sanitized_key
                 \o << ",target=" >> \o sanitized_dir
    ELSE << >>

\* docker.rs lines 427-440
docker_get_cache_mount(cache_key, cache_directories) ==
    IF cache_key # None /\ cache_directories # None
    THEN join([ i \in DOMAIN Unwrap(cache_directories) |->
                  LET sanitized_dir == replace_char(Unwrap(cache_directories)[i], "~", ROOT)
                      sanitized_key == sanitize_cache_key(
                          Unwrap(cache_key) \o << "-" >> \o sanitized_dir)
                  IN  << "--mount=type=cache,id=" >> \o sanitized_key
                          \o << ",target=" >> \o sanitized_dir ],
              << " " >>)
    ELSE << >>

\* docker.rs lines 442-448
docker_get_copy_command(files, app_dir) ==
    IF files = << >> THEN << >>
    ELSE << "COPY " >> \o join(files, << " " >>) \o << " ", app_dir >>

\* str::replace("./", app_dir) on a file name: its occurrences of "./" are
\* the fragments "./" and the character "." followed by the character "/"
replace_dot_slash(f, app_dir) ==
    replace_str([ i \in DOMAIN f |-> IF f[i] = "./" THEN app_dir ELSE f[i] ],
                << ".", "/" >>, << app_dir >>)

\* docker.rs lines 450-465 with the file names left as they were given
docker_get_copy_from_command_keep_paths(from, files, app_dir) ==
    IF files = << >> THEN << "COPY --from=", "0", " ", app_dir, " ", app_dir >>
    ELSE << "COPY --from=", from, " " >> \o join(files, << " " >>) \o << " ", app_dir >>

\* docker.rs lines 450-465
docker_get_copy_from_command(from, files, app_dir) ==
    IF files = << >> THEN << "COPY --from=", "0", " ", app_dir, " ", app_dir >>
    ELSE << "COPY --from=", from, " " >>
            \o join([ i \in DOMAIN files |-> replace_dot_slash(files[i], app_dir) ],
                    << " " >>)
            \o << " ", app_dir >>

\* lines 358-361 with the instruction written whether or not there is a command
start_cmd_always(start_phase) ==
    << "CMD " >> \o (IF start_phase.cmd = None THEN << >> ELSE << Unwrap(start_phase.cmd) >>)

\* lines 358-361: the start instruction
start_cmd_of(start_phase) ==
    IF start_phase.cmd = None THEN << >> ELSE << "CMD ", Unwrap(start_phase.cmd) >>

\* the variables named in the order they were inserted
variable_names_insertion_order(variables) == insertion_keys(variables)

\* lines 261-271: variables.iter(), the names in the order of the map
variable_names(variables) == map_keys(variables)

\* lines 299-304: static_assets.into_keys()
asset_names(static_assets) == map_keys(static_assets)

\* lines 257-275: the lines of args_string
args_string_of(variables) ==
    IF variables # << >>
    THEN LET names == variable_names(variables)
         IN  << << "ARG " >> \o join([ i \in DOMAIN names |-> << names[i] >> ], << " " >>),
                << "ENV " >> \o join([ i \in DOMAIN names |->
                                         << names[i], "=$", names[i] >> ], << " " >>) >>
    ELSE << << >> >>

\* lines 366-386 with the start files always copied within the one stage
run_image_setup_single_stage(start_phase, app_dir) ==
    << docker_get_copy_command(
           unwrap_or(start_phase.only_include_files, << << "." >> >>), app_dir) >>

\* lines 366-386: the lines of run_image_setup
run_image_setup_of(start_phase, app_dir) ==
    LET start_files == start_phase.only_include_files
    IN  IF start_phase.run_image # None
        THEN << << >>,
                << INDENT, "FROM ", Unwrap(start_phase.run_image) >>,
                << INDENT, "WORKDIR ", app_dir >>,
                << INDENT, "COPY --from=0 /etc/ssl/certs /etc/ssl/certs" >>,
                << INDENT, "RUN true" >>,
                << INDENT >> \o docker_get_copy_from_command(
                                    "0", unwrap_or(start_files, << >>), app_dir),
                << "            " >> >>
        ELSE << docker_get_copy_command(unwrap_or(start_files, << << "." >> >>), app_dir) >>

create_dockerfile(p, opts, e) ==
    LET environment_nix_path == << DOT_NIXPACKS_DIR, "/", "environment.nix" >>
        app_dir == APP_DIR
        assets_dir == ASSETS_DIR
        setup_phase == unwrap_or(p.setup, DefaultSetupPhase)
        install_phase == unwrap_or(p.install, DefaultInstallPhase)
        build_phase == unwrap_or(p.build, DefaultBuildPhase)
        start_phase == unwrap_or(p.start, DefaultStartPhase)
        variables == unwrap_or(p.variables, << >>)
        static_assets == unwrap_or(p.static_assets, << >>)
        cache_key == IF ~opts.no_cache /\ ~is_config_variable_truthy(e, "NO_CACHE")
                     THEN opts.cache_key
                     ELSE None
        args_string == args_string_of(variables)
        setup_files == << environment_nix_path >>
                          \o unwrap_or(setup_phase.only_include_files, << >>)
        setup_copy_cmd == << "COPY " >> \o join(setup_files, << " " >>) \o << " ", app_dir >>
        apt_pkgs == unwrap_or(setup_phase.apt_pkgs, << >>)
        apt_get_cmd ==
            IF apt_pkgs # << >>
            THEN << "RUN apt-get update && apt-get install -y " >>
                    \o join([ i \in DOMAIN apt_pkgs |-> << apt_pkgs[i] >> ], << " " >>)
            ELSE << >>
        setup_cmds == unwrap_or(setup_phase.cmds, << >>)
        setup_cmd == join_lines([ i \in DOMAIN setup_cmds |-> << "RUN ", setup_cmds[i] >> ])
        assets == asset_names(static_assets)
        assets_copy_cmd ==
            IF static_assets # << >>
            THEN [ i \in DOMAIN assets |->
                     << "COPY assets/", assets[i], " ", assets_dir, assets[i] >> ]
            ELSE << << >> >>
        install_cache_mount ==
            docker_get_cache_mount(cache_key, install_phase.cache_directories)
        install_cmds == unwrap_or(install_phase.cmds, << >>)
        install_cmd ==
            join_lines([ i \in DOMAIN install_cmds |->
                           << "RUN " >> \o install_cache_mount \o << " ", install_cmds[i] >> ])
        joined_paths ==
            join([ i \in DOMAIN unwrap_or(install_phase.paths, << >>) |->
                     << Unwrap(install_phase.paths)[i] >> ], << ":" >>)
        build_path == IF install_phase.paths # None
                      THEN << "ENV PATH " >> \o joined_paths \o << ":$PATH" >>
                      ELSE << >>
        run_path == IF install_phase.paths # None
                    THEN << "RUN printf '\\nPATH=" >> \o joined_paths
                            \o << ":$PATH' >> /root/.profile" >>
                    ELSE << >>
        install_files == unwrap_or(install_phase.only_include_files, << << "." >> >>)
        build_cache_mount ==
            docker_get_cache_mount(cache_key, build_phase.cache_directories)
        build_cmds == unwrap_or(build_phase.cmds, << >>)
        build_cmd ==
            join_lines([ i \in DOMAIN build_cmds |->
                           << "RUN " >> \o build_cache_mount \o << " ", build_cmds[i] >> ])
        build_files ==
            IF build_phase.only_include_files # None
            THEN Unwrap(build_phase.only_include_files)
            ELSE IF install_phase.only_include_files = None THEN << >>
            ELSE << << "." >> >>
        start_cmd == start_cmd_of(start_phase)
        run_image_setup == run_image_setup_of(start_phase, app_dir)
    IN  << << "FROM ", setup_phase.base_image >>,
           << >>,
           << "WORKDIR ", app_dir >>,
           << >>,
           << "# Setup" >>,
           setup_copy_cmd,
           << "RUN nix-env -if environment.nix" >>,
           apt_get_cmd >>
        \o setup_cmd
        \o << << >> >>
        \o assets_copy_cmd
        \o << << >>,
              << "# Load environment variables" >> >>
        \o args_string
        \o << << >>,
              << "# Install" >>,
              docker_get_copy_command(install_files, app_dir) >>
        \o install_cmd
        \o << << >>,
              build_path,
              run_path,
              << >>,
              << "# Build" >>,
              docker_get_copy_command(build_files, app_dir) >>
        \o build_cmd
        \o << << >>,
              << "# Start" >> >>
        \o run_image_setup
        \o << start_cmd >>

(***************************************************************************)
(* The recipe synthesizer as a state machine: a plan, the builder options  *)
(* and the environment are fixed; create_image (with print_dockerfile) and *)
(* write_dockerfile each synthesize the recipe, and the plan may be built  *)
(* again with the entries of its maps inserted in another order.           *)
(***************************************************************************)
MaxRuns == 2

MaxEntries == 2

\* the sequences that hold every element of S once
Orderings(S) ==
    { o \in [ 1..Cardinality(S) -> S ] :
        \A i, j \in 1..Cardinality(S) : o[i] = o[j] => i = j }

\* the maps of the model, by the order their entries were inserted in
RecipeMaps ==
    { None } \cup
    { Some(o) : o \in UNION { Orderings({ << KeyOrder[i], "v" >> : i \in 1..n }) :
                                n \in 0..MaxEntries } }

RecipeSetups ==
    { None,
      Some([ base_image |-> DEFAULT_BASE_IMAGE,
             only_include_files |-> Some(<< << "flake.nix" >> >>),
             apt_pkgs |-> Some(<< "curl" >>),
             cmds |-> Some(<< "echo setup" >>) ]) }

\* an install phase that restricts its files and caches two directories
InstallRestricted ==
    Some([ cmds |-> Some(<< "npm ci", "npm prune" >>),
           cache_directories |-> Some(<< << "~", "/", "c" >>, << "m" >> >>),
           paths |-> Some(<< "/app/bin" >>),
           only_include_files |-> Some(<< << "package.json" >> >>) ])

\* an install phase with neither files nor cache directories
InstallPlain ==
    Some([ cmds |-> Some(<< "make deps" >>), cache_directories |-> None,
           paths |-> None, only_include_files |-> None ])

\* a build phase that caches a directory and does not restrict its files
BuildCached ==
    Some([ cmds |-> Some(<< "npm run build" >>),
           cache_directories |-> Some(<< << "d" >> >>),
           only_include_files |-> None ])

\* a build phase that restricts its files and caches nothing
BuildRestricted ==
    Some([ cmds |-> Some(<< "make" >>), cache_directories |-> None,
           only_include_files |-> Some(<< << "src" >> >>) ])

RecipeInstalls == { None, InstallRestricted, InstallPlain }

RecipeBuilds == { None, BuildCached, BuildRestricted }

\* the setup, install and build phases of the plans of the model
RecipePhases ==
    { ph \in [ setup : RecipeSetups, install : RecipeInstalls, build : RecipeBuilds ] :
        /\ (ph.setup = None) = (ph.build = None)
        /\ ph.install = None => ph.build = None }

RecipeStarts ==
    { None } \cup
    { Some([ cmd |-> cmd, only_include_files |-> files, run_image |-> image ]) :
        cmd \in { None, Some("npm run start") },
        files \in { None, Some(<< >>), Some(<< << "./", "dist" >> >>) },
        image \in { None, Some("alpine") } }

RecipeOptions ==
    { [ no_error_without_start |-> TRUE, no_cache |-> n, cache_key |-> k ] :
        n \in BOOLEAN, k \in { None, Some(<< "k" >>) } }

RecipeEnvs == { << >>, [ k \in { "NIXPACKS_NO_CACHE" } |-> "1" ] }

InitRecipe ==
    /\ \E phases \in RecipePhases :
          plan \in [ setup : { phases.setup }, install : { phases.install },
                     build : { phases.build }, start : RecipeStarts,
                     variables : RecipeMaps, static_assets : RecipeMaps ]
    /\ options \in RecipeOptions
    /\ env \in RecipeEnvs
    /\ options.no_cache \/ options.cache_key = None => env = << >>
    /\ options.no_cache => options.cache_key # None
    /\ app = [ files |-> {}, dirs |-> {}, content |-> << >>, matches |-> {}, start |-> None ]
    /\ call = "none"
    /\ args = None
    /\ pc = "recipe"
    /\ result = << >>
    /\ built = << >>
    /\ effects = << >>

\* docker.rs lines 84-89: create_image with print_dockerfile set
print_dockerfile ==
    /\ pc = "recipe"
    /\ Len(result) < MaxRuns
    /\ call' = "print_dockerfile"
    /\ result' = Append(result, create_dockerfile(plan, options, env))
    /\ UNCHANGED <<app, env, options, plan, args, pc, built, effects>>

\* docker.rs line 192: write_dockerfile
write_dockerfile ==
    /\ pc = "recipe"
    /\ Len(result) < MaxRuns
    /\ call' = "write_dockerfile"
    /\ result' = Append(result, create_dockerfile(plan, options, env))
    /\ UNCHANGED <<app, env, options, plan, args, pc, built, effects>>

\* the same plan built again, the entries of its maps inserted in another order
reinsert_map_entries ==
    /\ pc = "recipe"
    /\ \E vs \in (IF plan.variables = None THEN { None }
                  ELSE { Some(o) : o \in Orderings(Range(Unwrap(plan.variables))) }) :
       \E as \in (IF plan.static_assets = None THEN { None }
                  ELSE { Some(o) : o \in Orderings(Range(Unwrap(plan.static_assets))) }) :
          /\ plan' = [ plan EXCEPT !.variables = vs, !.static_assets = as ]
          /\ plan' # plan
    /\ call' = "reinsert_map_entries"
    /\ UNCHANGED <<app, env, options, args, pc, result, built, effects>>

NextRecipe == print_dockerfile \/ write_dockerfile \/ reinsert_map_entries

SpecRecipe == InitRecipe /\ [][NextRecipe]_vars

\* a line of the recipe that is a CMD instruction
IsCmdLine(line) == line # << >> /\ line[1] = "CMD "

CmdLines(text) == { i \in DOMAIN text : IsCmdLine(text[i]) }

\* the start phase create_dockerfile works with
StartPhaseOf(p) == unwrap_or(p.start, DefaultStartPhase)

\* C6: a recipe synthesized from a plan whose start phase has no command has
\* no CMD instruction; one synthesized from a plan with a start command has
\* exactly one CMD instruction, which carries the command and is the last
\* line of the recipe.
StartInstruction ==
    \A i \in DOMAIN result :
        IF StartPhaseOf(plan).cmd = None
        THEN CmdLines(result[i]) = {}
        ELSE /\ CmdLines(result[i]) = { Len(result[i]) }
             /\ result[i][Len(result[i])] = << "CMD ", Unwrap(StartPhaseOf(plan).cmd) >>

\* a recipe was synthesized from a plan with a start phase that has files and
\* a run image but no command
StartInstructionWitness ==
    /\ pc = "recipe"
    /\ result # << >>
    /\ plan.start # None
    /\ Unwrap(plan.start).cmd = None
    /\ Unwrap(plan.start).run_image # None
    /\ plan.setup # None

HeadingLine(text, heading) == CHOOSE i \in DOMAIN text : text[i] = << heading >>

\* the lines of a section of the recipe that run a command of its phase
PhaseRunLines(text, heading, next_heading) ==
    { i \in DOMAIN text :
        /\ HeadingLine(text, heading) < i
        /\ i < HeadingLine(text, next_heading)
        /\ text[i] # << >>
        /\ text[i][1] = "RUN " }

HasMount(line) == "--mount=type=cache,id=" \in Range(line)

\* a cache key is configured and neither the option nor the variable turns
\* caching off
CachingEnabled ==
    /\ options.cache_key # None
    /\ ~options.no_cache
    /\ ~("NIXPACKS_NO_CACHE" \in DOMAIN env /\ env["NIXPACKS_NO_CACHE"] \in { "1", "true" })

\* the RUN lines of a phase carry no mount when caching is off or the phase
\* has no cache directories, and the whole mount list of the phase otherwise
PhaseMounts(text, phase, lines, cmds) ==
    IF ~CachingEnabled \/ phase.cache_directories = None
    THEN \A i \in lines : ~HasMount(text[i])
    ELSE LET dirs == Unwrap(phase.cache_directories)
             mounts == ExpectedMounts(Unwrap(options.cache_key), dirs, Len(dirs))
         IN  /\ Cardinality(lines) = Len(cmds)
             /\ \A i \in lines :
                   /\ \E c \in Range(cmds) :
                         text[i] = << "RUN " >> \o mounts \o << " ", c >>
                   /\ Count(text[i], "--mount=type=cache,id=") = Len(dirs)

Legal(string) == sanitize_cache_key(string) = string

\* the id of a single mount directive: what stands between id= and ,target=
MountId(directive) ==
    LET stop == CHOOSE i \in DOMAIN directive : directive[i] = ",target="
    IN  SubSeq(directive, 2, stop - 1)

\* the cache keys and the cache directories get_cache_mount is called with
CacheKeysTried ==
    { Unwrap(a.cache_key) : a \in { a \in CacheMountArgs : a.cache_key # None } }

CacheDirsTried ==
    UNION { Range(Unwrap(a.cache_directories)) :
              a \in { a \in CacheMountArgs : a.cache_directories # None } }

\* C12: two (cache key, directory) pairs that differ and consist only of
\* characters the sanitizer leaves unchanged get different mount ids, from
\* get_cache_mount of utils.rs and from the one of docker.rs.
CacheMountIdsDistinct ==
    (/\ pc = "done" /\ call = "get_cache_mount"
     /\ "cache_key" \in DOMAIN args
     /\ args.cache_key # None /\ args.cache_directories # None
     /\ Len(Unwrap(args.cache_directories)) = 1
     /\ Legal(Unwrap(args.cache_key))
     /\ Legal(Unwrap(args.cache_directories)[1])) =>
        LET k == Unwrap(args.cache_key)
            d == Unwrap(args.cache_directories)[1]
        IN  \A k2 \in { x \in CacheKeysTried : Legal(x) } :
            \A d2 \in { x \in CacheDirsTried : Legal(x) } :
                << k2, d2 >> # << k, d >> =>
                    /\ MountId(get_cache_mount(Some(k2), Some(<< d2 >>))) # MountId(result)
                    /\ MountId(docker_get_cache_mount(Some(k2), Some(<< d2 >>)))
                          # MountId(docker_get_cache_mount(Some(k), Some(<< d >>)))

\* the strings one after the other, each after the first preceded by one space
RECURSIVE Spaced(_, _)
Spaced(strings, n) ==
    IF n = 0 THEN << >>
    ELSE Spaced(strings, n - 1) \o (IF n = 1 THEN << >> ELSE << " " >>) \o strings[n]

\* C13: get_copy_command returns the empty string exactly when the file list
\* is empty, and for files f1..fn exactly COPY f1 ... fn <app_dir>: the files
\* in the order given, single spaces between them, the destination last.
CopyCommandLaw ==
    (pc = "done" /\ call = "get_copy_command") =>
        /\ (result = << >>) = (args.files = << >>)
        /\ args.files # << >> =>
              result = << "COPY " >> \o Spaced(args.files, Len(args.files))
                          \o << " ", args.app_dir >>

\* get_copy_command has returned the instruction of two different files, in
\* the order they were given
CopyCommandWitness ==
    /\ pc = "done"
    /\ call = "get_copy_command"
    /\ args.files = << << "a" >>, << ".", "/" >> >>
    /\ result = << "COPY ", "a", " ", ".", "/", " ", "app" >>

\* C14: get_copy_from_command copies from the stage it is given: with no
\* files the result is COPY --from=<s> <app_dir> <app_dir>, with files f1..fn
\* it is COPY --from=<s> f1 ... fn <app_dir>, every file named unchanged.
CopyFromGivenStage ==
    (pc = "done" /\ call = "get_copy_from_command") =>
        IF args.files = << >>
        THEN result = << "COPY --from=", args.from, " ", args.app_dir, " ", args.app_dir >>
        ELSE result = << "COPY --from=", args.from, " " >>
                         \o Spaced(args.files, Len(args.files))
                         \o << " ", args.app_dir >>

\* JSON string unescaping of the characters from position i on, up to the
\* quote that ends the string; << >> (no string) when an escape is not one of
\* JSON, a line break is bare, or the string does not end
RECURSIVE JsonUnescape(_, _, _)
JsonUnescape(text, i, acc) ==
    IF i > Len(text) THEN None
    ELSE IF text[i] = "\"" THEN Some([ string |-> acc, end |-> i ])
    ELSE IF text[i] = "\\"
         THEN IF i = Len(text) THEN None
              ELSE IF text[i + 1] \in { "\"", "\\", "/" }
                   THEN JsonUnescape(text, i + 2, Append(acc, text[i + 1]))
              ELSE IF text[i + 1] = "n" THEN JsonUnescape(text, i + 2, Append(acc, "\n"))
              ELSE IF text[i + 1] = "t" THEN JsonUnescape(text, i + 2, Append(acc, "\t"))
              ELSE None
    ELSE IF text[i] \in { "\n", "\t" } THEN None
    ELSE JsonUnescape(text, i + 1, Append(acc, text[i]))

\* the command an exec-form instruction CMD ["..."] holds, read as a JSON
\* array of one string; << >> when the instruction is not such an array
ParseExecForm(instruction) ==
    IF Len(instruction) < 4 \/ instruction[1] # "CMD [" \/ instruction[2] # "\"" THEN None
    ELSE LET parsed == JsonUnescape(instruction, 3, << >>)
         IN  IF parsed = None THEN None
             ELSE IF Unwrap(parsed).end = Len(instruction) - 1
                     /\ instruction[Len(instruction)] = "]"
                  THEN Some(Unwrap(parsed).string)
             ELSE None

\* the command with each double quote preceded by a backslash
RECURSIVE QuotesEscaped(_)
QuotesEscaped(command) ==
    IF command = << >> THEN << >>
    ELSE QuotesEscaped(SubSeq(command, 1, Len(command) - 1))
            \o (IF command[Len(command)] = "\"" THEN << "\\", "\"" >>
                ELSE << command[Len(command)] >>)

\* C15: get_exec_command(c) is CMD ["<payload>"], the payload being c with
\* each double quote escaped as backslash-quote, and reading the emitted
\* one-element exec array back (JSON string unescaping) gives c again, also
\* for commands with double quotes and backslashes.
ExecQuotingRoundTrip ==
    (pc = "done" /\ call = "get_exec_command") =>
        /\ result = << "CMD [", "\"" >> \o QuotesEscaped(args.command) \o << "\"", "]" >>
        /\ ParseExecForm(result) = Some(args.command)

\* the instruction that copies the whole source tree into the app directory
FullTreeCopy == << "COPY ", ".", " ", APP_DIR >>

\* the lines of the recipe that copy the whole tree
FullTreeCopies(text) == { i \in DOMAIN text : text[i] = FullTreeCopy }

\* the lines of a section of the recipe
SectionLines(text, heading, next_heading) ==
    { i \in DOMAIN text :
        HeadingLine(text, heading) < i /\ i < HeadingLine(text, next_heading) }

\* C16: when neither the install phase nor the build phase restricts its
\* files, the recipe has the full-tree copy exactly once, in the install
\* section, and neither the build nor the start section copies the tree
\* again; when install restricts its files and build does not, the full-tree
\* copy is in the build section.
FullTreeCopyOnce ==
    \A r \in DOMAIN result :
        LET text == result[r]
            install_phase == unwrap_or(plan.install, DefaultInstallPhase)
            build_phase == unwrap_or(plan.build, DefaultBuildPhase)
        IN  /\ (install_phase.only_include_files = None
                  /\ build_phase.only_include_files = None) =>
                  /\ Cardinality(FullTreeCopies(text)) = 1
                  /\ FullTreeCopies(text) \subseteq SectionLines(text, "# Install", "# Build")
            /\ (install_phase.only_include_files # None
                  /\ build_phase.only_include_files = None) =>
                  FullTreeCopies(text) \cap SectionLines(text, "# Build", "# Start") # {}

\* an instruction without the indentation of the run image block
Stripped(line) == IF line # << >> /\ line[1] = INDENT THEN Tail(line) ELSE line

\* the lines of the recipe that begin a stage
FromLines(text) ==
    { i \in DOMAIN text : Stripped(text[i]) # << >> /\ Stripped(text[i])[1] = "FROM " }

\* the lines that copy from the source tree, and those that copy from a stage
PlainCopies(text) ==
    { i \in DOMAIN text : Stripped(text[i]) # << >> /\ Stripped(text[i])[1] = "COPY " }

StageCopies(text) ==
    { i \in DOMAIN text :
        Stripped(text[i]) # << >> /\ Stripped(text[i])[1] = "COPY --from=" }

CertsCopy == << "COPY --from=0 /etc/ssl/certs /etc/ssl/certs" >>

\* a declared file as it is named in stage 0: ./ is the app directory
InStage(file) == [ i \in DOMAIN file |-> IF file[i] = "./" THEN APP_DIR ELSE file[i] ]

\* the recipe text with a start phase: two stages exactly when the phase has
\* a run image, the second stage made of FROM, WORKDIR, the copy of the
\* certificates and one copy from stage 0 of the declared files (of the app
\* directory when there are none); with no run image one stage and an
\* ordinary copy of plain_files in the start section (no copy when empty)
StageLaw(text, start_phase, plain_files) ==
    LET declared == unwrap_or(start_phase.only_include_files, << >>)
        start_section == { i \in DOMAIN text : i > HeadingLine(text, "# Start") }
    IN  IF start_phase.run_image # None
        THEN /\ Cardinality(FromLines(text)) = 2
             /\ PlainCopies(text) \cap start_section = {}
             /\ \E i \in start_section :
                   /\ i + 2 < Len(text)
                   /\ i > HeadingLine(text, "# Build")
                   /\ Stripped(text[i]) = << "FROM ", Unwrap(start_phase.run_image) >>
                   /\ Stripped(text[i + 1]) = << "WORKDIR ", APP_DIR >>
                   /\ Stripped(text[i + 2]) = CertsCopy
                   /\ \E j \in start_section :
                         /\ j > i + 2
                         /\ StageCopies(text) = { j }
                         /\ Stripped(text[j]) =
                               IF declared = << >>
                               THEN << "COPY --from=", "0", " ", APP_DIR, " ", APP_DIR >>
                               ELSE << "COPY --from=", "0", " " >>
                                       \o Spaced([ k \in DOMAIN declared |->
                                                     InStage(declared[k]) ],
                                                 Len(declared))
                                       \o << " ", APP_DIR >>
        ELSE /\ Cardinality(FromLines(text)) = 1
             /\ StageCopies(text) = {}
             /\ { i \in DOMAIN text : text[i] = CertsCopy } = {}
             /\ IF plain_files = << >>
                THEN PlainCopies(text) \cap start_section = {}
                ELSE \E i \in start_section :
                        /\ PlainCopies(text) \cap start_section = { i }
                        /\ text[i] = << "COPY " >>
                                        \o Spaced(plain_files, Len(plain_files))
                                        \o << " ", APP_DIR >>

\* C17 as the code has it: a second stage is emitted exactly when the start
\* phase has a run image, and then holds, after the build section and in this
\* order, FROM <run_image>, WORKDIR <app dir>, the copy of /etc/ssl/certs from
\* stage 0 and one COPY --from=0 of the declared files, or of the app
\* directory when none are declared (absent or empty list); with no run
\* image there is one FROM, and the start section copies the declared files
\* with an ordinary COPY, `.` when the list is absent, and nothing when the
\* list is declared empty.
RunImageStage ==
    \A r \in DOMAIN result :
        StageLaw(result[r], StartPhaseOf(plan),
                 unwrap_or(StartPhaseOf(plan).only_include_files, << << "." >> >>))

\* a recipe was synthesized for a start phase with a run image and the file
\* ./dist, and has the copy of /app/dist from stage 0
RunImageStageWitness ==
    /\ pc = "recipe"
    /\ result # << >>
    /\ plan.start # None
    /\ Unwrap(plan.start).run_image = Some("alpine")
    /\ Unwrap(plan.start).only_include_files = Some(<< << "./", "dist" >> >>)
    /\ << INDENT, "COPY --from=", "0", " ", APP_DIR, "dist", " ", APP_DIR >>
          \in Range(result[1])
    /\ << INDENT, "FROM ", "alpine" >> \in Range(result[1])

\* C17 as stated: as above, but with no run image the start section copies
\* `.` whenever no files are declared, the list absent or empty.
RunImageStageAsStated ==
    \A r \in DOMAIN result :
        LET declared == unwrap_or(StartPhaseOf(plan).only_include_files, << >>)
        IN  StageLaw(result[r], StartPhaseOf(plan),
                     IF declared = << >> THEN << << "." >> >> ELSE declared)

(***************************************************************************)
(* The image builders (SpecImage): DockerImageBuilder::create_image of     *)
(* docker_image_builder.rs, the builder lib.rs constructs, and             *)
(* DockerBuilder::create_image of docker.rs.  The call runs step by step;  *)
(* every step that touches the disk or the build engine may fail.  What    *)
(* the builder did is the sequence effects of [op, path]; a path is the    *)
(* sequence of its components.  args holds the locals of the call.         *)
(***************************************************************************)
\* the directory TempDir::new("nixpacks") creates
TEMP_DIR == "/tmp/nixpacks"

\* the current working directory, the root of OutputDir::default()
CURRENT_DIR == "."

\* the out_dir of the options of the model
OUT_DIR == "out"

DOCKERFILE == "Dockerfile"

Effect(op, path) == [ op |-> op, path |-> path ]

Unit == "()"

\* OutputDir::new(root, is_temp)
OutputDir_new(root, is_temp) == [ root |-> root, is_temp |-> is_temp ]

\* OutputDir::default()
OutputDir_default == OutputDir_new(CURRENT_DIR, FALSE)

\* lines 21-30 with every output directory marked temporary
get_output_dir_all_temp(opts) ==
    IF opts.out_dir # None THEN OutputDir_new(Unwrap(opts.out_dir), TRUE)
    ELSE IF opts.current_dir THEN OutputDir_new(CURRENT_DIR, TRUE)
    ELSE OutputDir_new(TEMP_DIR, TRUE)

\* docker_image_builder.rs lines 21-30: the output directory of the options
\* (the temporary directory once TempDir::new has created it)
get_output_dir(opts) ==
    IF opts.out_dir # None THEN OutputDir_new(Unwrap(opts.out_dir), FALSE)
    ELSE IF opts.current_dir THEN OutputDir_default
    ELSE OutputDir_new(TEMP_DIR, TRUE)

\* the step of create_image failed with the context given
Failed(context) ==
    /\ result' = Err(<< context >>)
    /\ pc' = "done"

\* lines 36-37 and 21-30: get_output_dir(&self.options)?
image_get_output_dir ==
    /\ pc = "image_get_output_dir"
    /\ call' = "DockerImageBuilder::create_image"
    /\ IF options.out_dir # None \/ options.current_dir
       THEN /\ args' = [ args EXCEPT !.output = Some(get_output_dir(options)) ]
            /\ pc' = "image_ensure_output_exists"
            /\ UNCHANGED <<result, effects>>
       ELSE \E created \in BOOLEAN :
               IF created
               THEN /\ effects' = Append(effects, Effect("create_dir", << TEMP_DIR >>))
                    /\ args' = [ args EXCEPT !.output = Some(get_output_dir(options)) ]
                    /\ pc' = "image_ensure_output_exists"
                    /\ UNCHANGED result
               ELSE /\ Failed("Creating a temp directory")
                    /\ UNCHANGED <<args, effects>>
    /\ UNCHANGED <<app, env, options, plan, built>>

\* line 38: output.ensure_output_exists()?
image_ensure_output_exists ==
    /\ pc = "image_ensure_output_exists"
    /\ \E created \in BOOLEAN :
          IF created
          THEN /\ effects' = Append(effects,
                      Effect("create_dir", << Unwrap(args.output).root, DOT_NIXPACKS_DIR >>))
               /\ pc' = "image_generate_dockerfile"
               /\ UNCHANGED result
          ELSE /\ Failed("Creating the output directory")
               /\ UNCHANGED effects
    /\ UNCHANGED <<app, env, options, plan, call, args, built>>

\* lines 40-48: plan.generate_dockerfile(..)?, and the print option
image_generate_dockerfile ==
    /\ pc = "image_generate_dockerfile"
    /\ \E generated \in BOOLEAN :
          IF ~generated
          THEN /\ Failed("Generating Dockerfile for plan")
               /\ UNCHANGED <<args, effects>>
          ELSE /\ args' = [ args EXCEPT
                              !.dockerfile = Some(create_dockerfile(plan, options, env)) ]
               /\ IF options.print_dockerfile
                  THEN /\ effects' = Append(effects, Effect("print", << "stdout" >>))
                       /\ result' = Ok(Unit)
                       /\ pc' = "done"
                  ELSE /\ pc' = "image_write_app"
                       /\ UNCHANGED <<result, effects>>
    /\ UNCHANGED <<app, env, options, plan, call, built>>

\* lines 52 and 242-248: self.write_app(app_src, &output)?
image_write_app ==
    /\ pc = "image_write_app"
    /\ IF Unwrap(args.output).is_temp
       THEN \E copied \in BOOLEAN :
               IF copied
               THEN /\ effects' = Append(effects,
                           Effect("copy_app", << Unwrap(args.output).root >>))
                    /\ pc' = "image_write_dockerfile"
                    /\ UNCHANGED result
               ELSE /\ Failed("Writing app")
                    /\ UNCHANGED effects
       ELSE /\ pc' = "image_write_dockerfile"
            /\ UNCHANGED <<result, effects>>
    /\ UNCHANGED <<app, env, options, plan, call, args, built>>

\* lines 53-54 and 250-256: self.write_dockerfile(dockerfile, &output)?
image_write_dockerfile ==
    /\ pc = "image_write_dockerfile"
    /\ \E written \in BOOLEAN :
          IF written
          THEN /\ effects' = Append(effects,
                      Effect("write_file",
                             << Unwrap(args.output).root, DOT_NIXPACKS_DIR, DOCKERFILE >>))
               /\ pc' = "image_write_supporting_files"
               /\ UNCHANGED result
          ELSE /\ Failed("Writing Dockerfile")
               /\ UNCHANGED effects
    /\ UNCHANGED <<app, env, options, plan, call, args, built>>

\* lines 55-56: plan.write_supporting_files(..)?
image_write_supporting_files ==
    /\ pc = "image_write_supporting_files"
    /\ \E written \in BOOLEAN :
          IF written
          THEN /\ effects' = Append(effects,
                      Effect("write_supporting_files",
                             << Unwrap(args.output).root, DOT_NIXPACKS_DIR >>))
               /\ pc' = "image_build"
               /\ UNCHANGED result
          ELSE /\ Failed("Writing supporting files")
               /\ UNCHANGED effects
    /\ UNCHANGED <<app, env, options, plan, call, args, built>>

\* lines 58-85: the build, unless out_dir is set, and the removal of the
\* temporary directory after a build that succeeded
image_build ==
    /\ pc = "image_build"
    /\ IF options.out_dir = None
       THEN \E spawned \in BOOLEAN, success \in BOOLEAN, removed \in BOOLEAN :
               LET output == Unwrap(args.output)
                   build == Effect("build", << output.root >>)
                   remove == Effect("remove_dir", << output.root >>)
               IN  IF ~spawned
                   THEN Failed("Building image") /\ UNCHANGED effects
                   ELSE IF ~success
                   THEN Failed("Docker build failed") /\ effects' = Append(effects, build)
                   ELSE IF ~output.is_temp
                   THEN /\ effects' = Append(effects, build)
                        /\ result' = Ok(Unit)
                        /\ pc' = "done"
                   ELSE IF removed
                   THEN /\ effects' = effects \o << build, remove >>
                        /\ result' = Ok(Unit)
                        /\ pc' = "done"
                   ELSE Failed("remove_dir_all") /\ effects' = Append(effects, build)
       ELSE /\ result' = Ok(Unit)
            /\ pc' = "done"
            /\ UNCHANGED effects
    /\ UNCHANGED <<app, env, options, plan, call, args, built>>

\* docker.rs lines 69-79: the directory of the call (out_dir, or a temporary
\* directory) and OutputDir::new, which creates its .nixpacks directory
docker_output_dir ==
    /\ pc = "docker_output_dir"
    /\ call' = "DockerBuilder::create_image"
    /\ \E temp_created \in BOOLEAN, created \in BOOLEAN :
          LET dir == IF options.out_dir # None THEN Unwrap(options.out_dir) ELSE TEMP_DIR
              temp == IF options.out_dir # None THEN << >>
                      ELSE << Effect("create_dir", << TEMP_DIR >>) >>
          IN  IF options.out_dir = None /\ ~temp_created
              THEN /\ Failed("Creating a temp directory")
                   /\ UNCHANGED <<args, effects>>
              ELSE IF ~created
              THEN /\ Failed("Create .nixpacks directory")
                   /\ effects' = effects \o temp
                   /\ UNCHANGED args
              ELSE /\ effects' = effects \o temp
                                    \o << Effect("create_dir", << dir, DOT_NIXPACKS_DIR >>) >>
                   /\ args' = [ args EXCEPT !.output = Some(OutputDir_new(dir, FALSE)) ]
                   /\ pc' = "docker_write"
                   /\ UNCHANGED result
    /\ UNCHANGED <<app, env, options, plan, built>>

\* the effects of docker.rs lines 94-99, in order
DockerWrites(root) ==
    << Effect("copy_app", << root >>),
       Effect("write_assets", << root, "assets" >>),
       Effect("write_file", << root, DOT_NIXPACKS_DIR, DOCKERFILE >>),
       Effect("write_supporting_files", << root, DOT_NIXPACKS_DIR >>) >>

\* docker.rs lines 83-99: the print option, else the app, the assets, the
\* Dockerfile and the Nix expression written to the directory
docker_print_or_write ==
    /\ pc = "docker_write"
    /\ IF options.print_dockerfile
       THEN /\ args' = [ args EXCEPT
                           !.dockerfile = Some(create_dockerfile(plan, options, env)) ]
            /\ effects' = Append(effects, Effect("print", << "stdout" >>))
            /\ result' = Ok(Unit)
            /\ pc' = "done"
       ELSE \E written \in 0..4 :
               LET writes == DockerWrites(Unwrap(args.output).root)
               IN  /\ effects' = effects \o SubSeq(writes, 1, written)
                   /\ IF written = 4
                      THEN /\ args' = [ args EXCEPT !.dockerfile =
                                          Some(create_dockerfile(plan, options, env)) ]
                           /\ pc' = "docker_build"
                           /\ UNCHANGED result
                      ELSE /\ Failed("Writing")
                           /\ UNCHANGED args
    /\ UNCHANGED <<app, env, options, plan, call, built>>

\* docker.rs lines 101-121: the build, unless out_dir is set
docker_build ==
    /\ pc = "docker_build"
    /\ IF options.out_dir = None
       THEN \E spawned \in BOOLEAN, success \in BOOLEAN :
               LET build == Effect("build", << Unwrap(args.output).root >>)
               IN  IF ~spawned
                   THEN Failed("Building image") /\ UNCHANGED effects
                   ELSE IF ~success
                   THEN Failed("Docker build failed") /\ effects' = Append(effects, build)
                   ELSE /\ effects' = Append(effects, build)
                        /\ result' = Ok(Unit)
                        /\ pc' = "done"
       ELSE /\ result' = Ok(Unit)
            /\ pc' = "done"
            /\ UNCHANGED effects
    /\ UNCHANGED <<app, env, options, plan, call, args, built>>

\* the options of a call of create_image
ImageOptions ==
    { [ no_error_without_start |-> FALSE, no_cache |-> FALSE, cache_key |-> None,
        out_dir |-> o, current_dir |-> c, print_dockerfile |-> p ] :
        o \in { None, Some(OUT_DIR) }, c \in BOOLEAN, p \in BOOLEAN }

\* the plans of the calls: one without phases, one with a start command
ImagePlans ==
    { [ setup |-> None, install |-> None, build |-> None, start |-> st,
        variables |-> None, static_assets |-> None ] :
        st \in { None, Some([ cmd |-> Some("npm run start"),
                              only_include_files |-> None, run_image |-> None ]) } }

InitImage ==
    /\ options \in ImageOptions
    /\ plan \in ImagePlans
    /\ pc \in { "image_get_output_dir", "docker_output_dir" }
    /\ pc = "docker_output_dir" => ~options.current_dir
    /\ args = [ output |-> None, dockerfile |-> None ]
    /\ app = [ files |-> {}, dirs |-> {}, content |-> << >>, matches |-> {}, start |-> None ]
    /\ env = << >>
    /\ call = "none"
    /\ result = None
    /\ built = << >>
    /\ effects = << >>

NextImage ==
    \/ image_get_output_dir
    \/ image_ensure_output_exists
    \/ image_generate_dockerfile
    \/ image_write_app
    \/ image_write_dockerfile
    \/ image_write_supporting_files
    \/ image_build
    \/ docker_output_dir
    \/ docker_print_or_write
    \/ docker_build

SpecImage == InitImage /\ [][NextImage]_vars

\* the positions of the effects of one kind
EffectsOf(op) == { i \in DOMAIN effects : effects[i].op = op }

\* the call has returned Ok
ReturnedOk == pc = "done" /\ result # None /\ result.ok

\* C18: with the print option create_image writes the recipe to the standard
\* output and returns having created or changed nothing on disk (no
\* temporary directory, no .nixpacks directory, no copy of the app, no
\* recipe file, no supporting files) and without running the build engine.
PrintWritesNothing ==
    options.print_dockerfile =>
        /\ \A i \in DOMAIN effects : effects[i].op = "print"
        /\ ReturnedOk => effects = << Effect("print", << "stdout" >>) >>

\* C19: with out_dir set and no printing, a create_image that returns Ok has
\* written the app, the recipe under .nixpacks and the supporting files
\* under out_dir and has not run the build engine; the build engine runs
\* exactly when out_dir is not set and printing is not asked for, and only
\* after the app (unless the current directory is the build context), the
\* recipe and the supporting files were written.
OutDirHoldsBuildContext ==
    /\ (options.out_dir # None /\ ~options.print_dockerfile /\ ReturnedOk) =>
          /\ Effect("copy_app", << OUT_DIR >>) \in Range(effects)
          /\ Effect("write_file", << OUT_DIR, DOT_NIXPACKS_DIR, DOCKERFILE >>)
                \in Range(effects)
          /\ Effect("write_supporting_files", << OUT_DIR, DOT_NIXPACKS_DIR >>)
                \in Range(effects)
          /\ EffectsOf("build") = {}
    /\ EffectsOf("build") # {} => options.out_dir = None /\ ~options.print_dockerfile
    /\ (ReturnedOk /\ options.out_dir = None /\ ~options.print_dockerfile) =>
          EffectsOf("build") # {}
    /\ \A b \in EffectsOf("build") :
          /\ \E i \in EffectsOf("write_file") : i < b
          /\ \E i \in EffectsOf("write_supporting_files") : i < b
          /\ Unwrap(args.output).root # CURRENT_DIR => \E i \in EffectsOf("copy_app") : i < b

\* C20: create_image removes a directory only if it is the temporary
\* directory that the same call created: never the out_dir of the options,
\* never the current directory; and the output root is out_dir whenever
\* out_dir is set, also with current_dir.
RemovesOnlyItsTempDir ==
    /\ \A r \in EffectsOf("remove_dir") :
          /\ effects[r].path = << TEMP_DIR >>
          /\ options.out_dir = None
          /\ ~options.current_dir
          /\ \E c \in EffectsOf("create_dir") :
                c < r /\ effects[c].path = << TEMP_DIR >>
    /\ (options.out_dir # None /\ args.output # None) =>
          Unwrap(args.output).root = Unwrap(options.out_dir)

\* a call without out_dir and current_dir has built the image and removed
\* the temporary directory it created
RemovesOnlyItsTempDirWitness ==
    /\ ReturnedOk
    /\ call = "DockerImageBuilder::create_image"
    /\ Effect("remove_dir", << TEMP_DIR >>) \in Range(effects)
    /\ Effect("build", << TEMP_DIR >>) \in Range(effects)

(***************************************************************************)
(* Further properties of the provider chain (SpecChain).                   *)
(***************************************************************************)
\* C21: the static-file provider is the last entry of get_providers, every
\* other registered provider is consulted before it, and a tree that the
\* static-file provider and another provider both detect is never assigned
\* to the static-file provider.
StaticfileConsultedLast ==
    (Returned /\ IndexOf("Staticfile") \in Detecting) =>
        /\ get_providers[Len(get_providers)] = "Staticfile"
        /\ \A i \in DOMAIN get_providers :
              get_providers[i] # "Staticfile" => i < IndexOf("Staticfile")
        /\ Cardinality(Detecting) >= 2 =>
              /\ result.ok /\ call = "generate_build_plan" =>
                    result.val.provider # "Staticfile"
              /\ \A k \in DOMAIN built : built[k].provider # "Staticfile"

\* C24: every plan create_docker_image hands to the image builder while
\* no_error_without_start is not set has a Start phase, and that phase has
\* a start command.
HandedPlanHasEntryPoint ==
    (pc = "done" /\ call = "create_docker_image" /\ ~options.no_error_without_start) =>
        \A k \in DOMAIN built :
            /\ built[k].start_phase # None
            /\ Unwrap(built[k].start_phase).cmd # None

\* the tree holds gradlew and every file the Gradle structure check asks for
ConsistentGradle ==
    /\ includes_file(app, GRADLEW)
    /\ includes_file(app, BUILD_GRADLE) \/ includes_file(app, BUILD_GRADLE_KTS)
    /\ includes_file(app, SETTINGS_GRADLE)
    /\ includes_file(app, WRAPPER_PROPERTIES)

\* what C25 asks of a plan of the Java provider on the tree
JavaPlanKindOf(p) ==
    /\ ConsistentGradle =>
          /\ p.kind = "gradle"
          /\ p.build_cmd = Some(<< "./gradlew build -x check" >>)
          /\ p.pkgs = << get_jdk_pgk(app, env).val >>
    /\ p.kind = "maven" <=> ~includes_file(app, GRADLEW)
    /\ p.kind = "maven" => is_maven_app(app)

\* C25: when the Java provider is selected the Gradle wrapper alone decides
\* the kind of the plan: with gradlew and a consistent Gradle structure the
\* Gradle plan (./gradlew build, the JDK of get_jdk_pgk) is returned, with
\* or without a pom file; the Maven plan is returned only without gradlew,
\* and then the tree is a Maven app; detect returns true exactly on a Maven
\* app or a consistent Gradle app.
JavaPlanKind ==
    (Returned /\ JavaConsulted) =>
        /\ java_detect(app) = Ok(TRUE) <=> (is_maven_app(app) \/ ConsistentGradle)
        /\ (java_detect(app) = Ok(TRUE) /\ call = "generate_build_plan" /\ result.ok) =>
              /\ result.val.provider = "Java"
              /\ JavaPlanKindOf(result.val)
        /\ java_detect(app) = Ok(TRUE) =>
              \A k \in DOMAIN built :
                  built[k].provider = "Java" /\ JavaPlanKindOf(built[k])

\* C25 witness: a tree with a consistent Gradle structure and a pom file, on
\* which the Java provider returned the Gradle plan
JavaPlanKindWitness ==
    /\ Returned
    /\ call = "generate_build_plan"
    /\ JavaConsulted
    /\ ConsistentGradle
    /\ includes_file(app, "pom.xml")
    /\ result.ok
    /\ result.val.kind = "gradle"

(***************************************************************************)
(* The Clojure provider end to end (SpecJdk): generate_build_plan on a     *)
(* tree with project.clj, a version file and an override.                  *)
(***************************************************************************)
\* the JDK package version inference chooses for the tree and the environment
ChosenClojureJdk ==
    IF JdkOverride # None THEN PackageOf(Unwrap(JdkOverride))
    ELSE IF JdkVersionFile # None THEN PackageOf(Unwrap(JdkVersionFile))
    ELSE CLOJURE_DEFAULT_JDK_PKG_NAME

\* C22: the Setup phase of the plan the Clojure provider contributes holds
\* the JDK package chosen by version inference: jdk11 when .jdk-version or
\* NIXPACKS_JDK_VERSION gives 11, the default package only when neither
\* gives a recognised version.
ClojureSetupHoldsChosenJdk ==
    (pc = "done" /\ call = "generate_build_plan"
        /\ result.ok /\ result.val.provider = "Clojure") =>
        { p \in Range(result.val.pkgs) : p \in { "jdk8", "jdk11" } } = { ChosenClojureJdk }

(***************************************************************************)
(* The lifetime of the temporary directory (SpecImage).                    *)
(***************************************************************************)
\* the positions at which the call created a temporary directory
TempDirsCreated ==
    { c \in EffectsOf("create_dir") : effects[c].path = << TEMP_DIR >> }

\* C23: when create_image has returned (the recipe printed, the build
\* succeeded, the build engine failed or could not be spawned, a write step
\* failed), every temporary directory the call created has been removed;
\* a removal that itself failed is left aside.
TempDirRemovedOnReturn ==
    (pc = "done" /\ result # Err(<< "remove_dir_all" >>)) =>
        \A c \in TempDirsCreated :
            \E r \in EffectsOf("remove_dir") :
                r > c /\ effects[r].path = << TEMP_DIR >>

====
